---- MODULE Spec2Model ----
(***************************************************************************)
(* Model of Broadcaster<EventType, Params...> (src/broadcaster):            *)
(* the event table m_eventsMap, the heap-allocated Callback records it      *)
(* owns, and the operations subscribe / unsubscribe / dispatch and the      *)
(* destructor (clearAllSubscribers).                                        *)
(*                                                                          *)
(* dispatch is modelled one callback invocation at a time, because each     *)
(* invocation runs caller-supplied code that may return or raise.           *)
(***************************************************************************)
EXTENDS Integers, Sequences, FiniteSets, TLC

\* ------------------------------------------------------------------------
\* Bounds and input sets
\* ------------------------------------------------------------------------

\* Upper bound on the number of `new` expressions executed by subscribe.
MaxAllocs == 3

\* Event keys used by the caller.
Events == {"e1", "e2"}

\* Values of the (single) dispatched parameter.
ParamValues == {5, 7}

\* Free functions of signature void(EventType, Params...).
Functions == {"fA", "fB"}

\* Subscriber objects and their concrete classes.
Objects == {"o1", "o2", "u1"}

ClassOf(object) == IF object = "u1" THEN "U" ELSE "T"

\* Member functions void (T::*)(EventType, Params...), with their class.
Methods == {"T::m", "U::m"}

MethodClass(method) == IF method = "U::m" THEN "U" ELSE "T"

\* ------------------------------------------------------------------------
\* State
\* ------------------------------------------------------------------------
VARIABLES
    alive,        \* the Broadcaster object has not been destroyed
    m_eventsMap,  \* EventMap: event key -> CallbackVector (sequence of records)
    deleted,      \* heap: record id (allocation number) -> times `delete` hit it
    last,         \* the call in progress or the last call made, with its outcome
    iter,         \* dispatch's range-for iterators [it, endIt] (0,0 when idle)
    log,          \* invocations performed by the current / last dispatch
    loop,         \* the current / last dispatch's loop: the vector as it was at
                  \* begin(), whether its iterators are still valid, the calls
                  \* made from inside callbacks, the previous dispatch's log
    history       \* record of the calls made per (event, function): "never" |
                  \* "subscribed" | "unsubscribed"; kept only when recording

vars == <<alive, m_eventsMap, deleted, last, iter, log, loop, history>>

\* ------------------------------------------------------------------------
\* Callback records (Callback.h, StaticCallback, MemberCallback.h)
\* ------------------------------------------------------------------------

\* Dynamic type of the record built at Broadcaster.h:56.
StaticCallbackClass == <<"StaticCallback", "EventType", "Params...">>

\* Dynamic type of the record built at Broadcaster.h:74, for class T.
MemberCallbackClass(T) == <<"MemberCallback", "EventType", T, "Params...">>

\* The cast target named in find(callbacks, callback), Broadcaster.h:178:
\* StaticCallback<Params...>, without EventType, which is not the class that
\* subscribe instantiates at line 56.
StaticType == <<"StaticCallback", "Params...">>

\* The bug of naming the member cast target without the event type.
MemberType_withoutEventType(T) == <<"MemberCallback", T, "Params...">>

\* The cast target named in find(callbacks, method), Broadcaster.h:196.
MemberType(T) == <<"MemberCallback", "EventType", T, "Params...">>

\* new StaticCallback<EventType, Params...>(callback)
StaticCallback(id, callback) ==
    [id |-> id, class |-> StaticCallbackClass, m_func |-> callback]

\* new MemberCallback<EventType, T, Params...>(object, method)
MemberCallback(id, object, method) ==
    [id |-> id, class |-> MemberCallbackClass(MethodClass(method)),
     m_object |-> object, m_method |-> method]

\* dynamic_cast<Target*>(record): non-null exactly when the record's dynamic
\* type is Target (the hierarchy has no class derived from a concrete one).
DynamicCast(record, Target) == record.class = Target

\* StaticCallback::operator==(StaticMethod other)
StaticEquals(record, other) == record.m_func = other

\* MemberCallback::operator==(MemberMethod other): the object is not compared.
MemberEquals(record, other) == record.m_method = other

\* Callback::invoke, as seen by the subscriber: StaticCallback calls
\* m_func(event, params...), MemberCallback calls (obj->*m_method)(event,
\* params...). `raises` is whether the callee raised a failure, `dangling`
\* whether the record had already been deleted when it was invoked.
invoke(record, event, params, raises, dangling) ==
    IF record.class = StaticCallbackClass
    THEN [id |-> record.id, callee |-> record.m_func, object |-> "none",
          event |-> event, params |-> params,
          raised |-> raises, dangling |-> dangling]
    ELSE [id |-> record.id, callee |-> record.m_method, object |-> record.m_object,
          event |-> event, params |-> params,
          raised |-> raises, dangling |-> dangling]

\* ------------------------------------------------------------------------
\* Private helpers of Broadcaster
\* ------------------------------------------------------------------------

\* The empty std::unordered_map.
EmptyMap == [event \in {} |-> <<>>]

\* The sequence s without its element at index i (vector::erase).
Erase(s, i) == [j \in 1..(Len(s) - 1) |-> IF j < i THEN s[j] ELSE s[j + 1]]

\* bool hasCallbacks(event) const
hasCallbacks(map, event) == event \in DOMAIN map

\* The bug of returning true also when the key was already there.
createCallbacks_alwaysTrue(map, event) ==
    IF ~hasCallbacks(map, event)
    THEN [map |-> (event :> <<>>) @@ map, isCreated |-> TRUE]
    ELSE [map |-> map, isCreated |-> TRUE]

\* bool createCallbacks(event): adds an empty vector for an unknown key.
createCallbacks(map, event) ==
    IF ~hasCallbacks(map, event)
    THEN [map |-> (event :> <<>>) @@ map, isCreated |-> TRUE]
    ELSE [map |-> map, isCreated |-> FALSE]

\* CallbackVector* getCallbacks(event): &m_eventsMap.at(event); at() throws
\* std::out_of_range for a key that is not in the map.
getCallbacks(map, event) ==
    IF event \in DOMAIN map
    THEN [thrown |-> "none", callbacks |-> map[event]]
    ELSE [thrown |-> "out_of_range", callbacks |-> <<>>]

\* find(callbacks, callback): index of the first record that casts to
\* StaticType and compares equal to callback; Len + 1 stands for end().
find_callback(callbacks, callback) ==
    LET hits == {i \in 1..Len(callbacks) :
                    DynamicCast(callbacks[i], StaticType)
                    /\ StaticEquals(callbacks[i], callback)}
    IN  IF hits = {} THEN Len(callbacks) + 1
        ELSE CHOOSE i \in hits : \A j \in hits : i <= j

\* The bug of casting with static_cast: every record passes the cast, and a
\* StaticCallback record read as a MemberCallback compares equal to method.
find_method_uncheckedCast(callbacks, method) ==
    LET hits == {i \in 1..Len(callbacks) :
                    \/ callbacks[i].class = StaticCallbackClass
                    \/ /\ DynamicCast(callbacks[i], MemberType(MethodClass(method)))
                       /\ MemberEquals(callbacks[i], method)}
    IN  IF hits = {} THEN Len(callbacks) + 1
        ELSE CHOOSE i \in hits : \A j \in hits : i <= j

\* find<T>(callbacks, method): index of the first record that casts to
\* MemberType(T) and compares equal to method; Len + 1 stands for end().
find_method(callbacks, method) ==
    LET hits == {i \in 1..Len(callbacks) :
                    DynamicCast(callbacks[i], MemberType(MethodClass(method)))
                    /\ MemberEquals(callbacks[i], method)}
    IN  IF hits = {} THEN Len(callbacks) + 1
        ELSE CHOOSE i \in hits : \A j \in hits : i <= j

\* The bug of inserting the new record at begin() instead of at the end.
push_front(callbacks, record) == <<record>> \o callbacks

\* callbacks.push_back(record)
push_back(callbacks, record) == Append(callbacks, record)

\* The bug of erasing the pointer without deleting the record (a leak).
clearSubscriber_eraseOnly(callbacks, del, iterator) ==
    IF iterator /= Len(callbacks) + 1
    THEN [callbacks |-> Erase(callbacks, iterator), deleted |-> del,
          released |-> {}]
    ELSE [callbacks |-> callbacks, deleted |-> del, released |-> {}]

\* clearSubscriber(callbacks, iterator): delete *iterator and erase it,
\* unless iterator is end(). `released` is the set of records it deleted.
clearSubscriber(callbacks, del, iterator) ==
    IF iterator /= Len(callbacks) + 1
    THEN [callbacks |-> Erase(callbacks, iterator),
          deleted   |-> [del EXCEPT ![callbacks[iterator].id] = @ + 1],
          released  |-> {callbacks[iterator]}]
    ELSE [callbacks |-> callbacks, deleted |-> del, released |-> {}]

\* Number of positions, over all vectors of the map, that hold record id.
Occurrences(map, id) ==
    Cardinality({p \in UNION {{event} \X (DOMAIN map[event]) : event \in DOMAIN map} :
                    map[p[1]][p[2]].id = id})

\* The bug of leaving out m_eventsMap.clear(): the keys stay, with empty vectors.
clearAllSubscribers_keepKeys(map, del) ==
    [map      |-> [event \in DOMAIN map |-> <<>>],
     deleted  |-> [id \in DOMAIN del |-> del[id] + Occurrences(map, id)],
     released |-> UNION {{map[event][i] : i \in DOMAIN map[event]} :
                            event \in DOMAIN map}]

\* clearAllSubscribers(): delete every record of every vector, clear the
\* vectors, clear the map.
clearAllSubscribers(map, del) ==
    [map      |-> EmptyMap,
     deleted  |-> [id \in DOMAIN del |-> del[id] + Occurrences(map, id)],
     released |-> UNION {{map[event][i] : i \in DOMAIN map[event]} :
                            event \in DOMAIN map}]

\* ------------------------------------------------------------------------
\* Calls
\* ------------------------------------------------------------------------

\* A call of the public interface, with how it ended:
\* "running" | "ok" | "out_of_range" (thrown by at()) | "failure" (raised by
\* a subscriber's function or method); `released` is the set of records the
\* call deleted.
Call(op, event, target, object, params, outcome, released) ==
    [op |-> op, event |-> event, target |-> target, object |-> object,
     params |-> params, outcome |-> outcome, released |-> released]

NoIter == [it |-> 0, endIt |-> 0]

\* No dispatch loop has been started by the last call.
NoLoop ==
    [buffer |-> <<>>, valid |-> TRUE, nested |-> {},
     previous |-> [dispatched |-> FALSE, ids |-> <<>>]]

\* No call is in progress on a live Broadcaster.
Idle == alive /\ last.outcome /= "running"

\* No subscribe or unsubscribe call has been made; calls are not recorded.
NoHistory ==
    [recording |-> FALSE,
     calls     |-> [event \in Events |-> [callback \in Functions |-> "never"]]]

\* The history after subscribe(event, callback).
Subscribed(event, callback) ==
    IF history.recording
    THEN [history EXCEPT !.calls[event][callback] = "subscribed"]
    ELSE history

\* The history after unsubscribe(event, callback) has returned.
Unsubscribed(event, callback) ==
    IF history.recording
    THEN [history EXCEPT !.calls[event][callback] =
                             IF @ = "never" THEN @ ELSE "unsubscribed"]
    ELSE history

\* Broadcaster() {}
Init ==
    /\ alive = TRUE
    /\ m_eventsMap = EmptyMap
    /\ deleted = <<>>
    /\ last = Call("Broadcaster", "none", "none", "none", 0, "ok", {})
    /\ iter = NoIter
    /\ log = <<>>
    /\ loop = NoLoop
    /\ history = NoHistory

\* void subscribe(event, void (*callback)(EventType, Params...))
subscribe_callback(event, callback) ==
    /\ Idle
    /\ Len(deleted) < MaxAllocs
    /\ LET created   == createCallbacks(m_eventsMap, event)
           callbacks == getCallbacks(created.map, event).callbacks
           cleared   == IF ~created.isCreated
                        THEN clearSubscriber(callbacks, deleted,
                                             find_callback(callbacks, callback))
                        ELSE [callbacks |-> callbacks, deleted |-> deleted,
                              released |-> {}]
           id        == Len(deleted) + 1
       IN  /\ m_eventsMap' = [created.map EXCEPT ![event] =
                                 push_back(cleared.callbacks, StaticCallback(id, callback))]
           /\ last' = Call("subscribe", event, callback, "none", 0, "ok",
                           cleared.released)
           /\ deleted' = Append(cleared.deleted, 0)
    /\ history' = Subscribed(event, callback)
    /\ log' = <<>>
    /\ loop' = NoLoop
    /\ UNCHANGED <<alive, iter>>

\* template<typename T> void subscribe(event, T* object, void (T::*method)(...))
subscribe_method(event, object, method) ==
    /\ Idle
    /\ ClassOf(object) = MethodClass(method)
    /\ Len(deleted) < MaxAllocs
    /\ LET created   == createCallbacks(m_eventsMap, event)
           callbacks == getCallbacks(created.map, event).callbacks
           cleared   == IF ~created.isCreated
                        THEN clearSubscriber(callbacks, deleted,
                                             find_method(callbacks, method))
                        ELSE [callbacks |-> callbacks, deleted |-> deleted,
                              released |-> {}]
           id        == Len(deleted) + 1
       IN  /\ m_eventsMap' = [created.map EXCEPT ![event] =
                                 push_back(cleared.callbacks,
                                           MemberCallback(id, object, method))]
           /\ last' = Call("subscribe", event, method, object, 0, "ok",
                           cleared.released)
           /\ deleted' = Append(cleared.deleted, 0)
    /\ log' = <<>>
    /\ loop' = NoLoop
    /\ UNCHANGED <<alive, iter, history>>

\* void unsubscribe(event, void (*callback)(EventType, Params...))
unsubscribe_callback(event, callback) ==
    /\ Idle
    /\ LET got == getCallbacks(m_eventsMap, event)
       IN  IF got.thrown /= "none"
           THEN /\ last' = Call("unsubscribe", event, callback, "none", 0, got.thrown, {})
                /\ UNCHANGED <<m_eventsMap, deleted, history>>
           ELSE LET cleared == clearSubscriber(got.callbacks, deleted,
                                               find_callback(got.callbacks, callback))
                IN  /\ m_eventsMap' = [m_eventsMap EXCEPT ![event] = cleared.callbacks]
                    /\ deleted' = cleared.deleted
                    /\ last' = Call("unsubscribe", event, callback, "none", 0, "ok",
                                     cleared.released)
                    /\ history' = Unsubscribed(event, callback)
    /\ log' = <<>>
    /\ loop' = NoLoop
    /\ UNCHANGED <<alive, iter>>

\* The bug of removing the method's binding from the vector of every event.
unsubscribe_method_fromEveryEvent(event, object, method) ==
    /\ Idle
    /\ ClassOf(object) = MethodClass(method)
    /\ LET got == getCallbacks(m_eventsMap, event)
       IN  IF got.thrown /= "none"
           THEN /\ last' = Call("unsubscribe", event, method, object, 0, got.thrown, {})
                /\ UNCHANGED <<m_eventsMap, deleted>>
           ELSE LET cleared(e) == clearSubscriber(m_eventsMap[e], deleted,
                                                  find_method(m_eventsMap[e], method))
                    gone       == UNION {cleared(e).released : e \in DOMAIN m_eventsMap}
                IN  /\ m_eventsMap' = [e \in DOMAIN m_eventsMap |-> cleared(e).callbacks]
                    /\ deleted' = [id \in DOMAIN deleted |->
                                      IF \E r \in gone : r.id = id
                                      THEN deleted[id] + 1 ELSE deleted[id]]
                    /\ last' = Call("unsubscribe", event, method, object, 0, "ok", gone)
    /\ log' = <<>>
    /\ loop' = NoLoop
    /\ UNCHANGED <<alive, iter, history>>

\* The change of matching the bound object as well as the method.
unsubscribe_method_matchingObject(event, object, method) ==
    /\ Idle
    /\ ClassOf(object) = MethodClass(method)
    /\ LET got == getCallbacks(m_eventsMap, event)
       IN  IF got.thrown /= "none"
           THEN /\ last' = Call("unsubscribe", event, method, object, 0, got.thrown, {})
                /\ UNCHANGED <<m_eventsMap, deleted>>
           ELSE LET found   == find_method(got.callbacks, method)
                    matched == IF found /= Len(got.callbacks) + 1
                                  /\ got.callbacks[found].m_object = object
                               THEN found
                               ELSE Len(got.callbacks) + 1
                    cleared == clearSubscriber(got.callbacks, deleted, matched)
                IN  /\ m_eventsMap' = [m_eventsMap EXCEPT ![event] = cleared.callbacks]
                    /\ deleted' = cleared.deleted
                    /\ last' = Call("unsubscribe", event, method, object, 0, "ok",
                                     cleared.released)
    /\ log' = <<>>
    /\ loop' = NoLoop
    /\ UNCHANGED <<alive, iter, history>>

\* The bug of erasing the event's key when its vector becomes empty.
unsubscribe_method_droppingEmptyKey(event, object, method) ==
    /\ Idle
    /\ ClassOf(object) = MethodClass(method)
    /\ LET got == getCallbacks(m_eventsMap, event)
       IN  IF got.thrown /= "none"
           THEN /\ last' = Call("unsubscribe", event, method, object, 0, got.thrown, {})
                /\ UNCHANGED <<m_eventsMap, deleted>>
           ELSE LET cleared == clearSubscriber(got.callbacks, deleted,
                                               find_method(got.callbacks, method))
                IN  /\ m_eventsMap' =
                           IF cleared.callbacks = <<>>
                           THEN [e \in DOMAIN m_eventsMap \ {event} |-> m_eventsMap[e]]
                           ELSE [m_eventsMap EXCEPT ![event] = cleared.callbacks]
                    /\ deleted' = cleared.deleted
                    /\ last' = Call("unsubscribe", event, method, object, 0, "ok",
                                     cleared.released)
    /\ log' = <<>>
    /\ loop' = NoLoop
    /\ UNCHANGED <<alive, iter, history>>

\* template<typename T> void unsubscribe(event, T* object, void (T::*method)(...))
unsubscribe_method(event, object, method) ==
    /\ Idle
    /\ ClassOf(object) = MethodClass(method)
    /\ LET got == getCallbacks(m_eventsMap, event)
       IN  IF got.thrown /= "none"
           THEN /\ last' = Call("unsubscribe", event, method, object, 0, got.thrown, {})
                /\ UNCHANGED <<m_eventsMap, deleted>>
           ELSE LET cleared == clearSubscriber(got.callbacks, deleted,
                                               find_method(got.callbacks, method))
                IN  /\ m_eventsMap' = [m_eventsMap EXCEPT ![event] = cleared.callbacks]
                    /\ deleted' = cleared.deleted
                    /\ last' = Call("unsubscribe", event, method, object, 0, "ok",
                                     cleared.released)
    /\ log' = <<>>
    /\ loop' = NoLoop
    /\ UNCHANGED <<alive, iter, history>>

\* The loop state at the start of dispatch(event): the vector the iterators
\* range over, and the records the previous call invoked if that call was a
\* dispatch of the same event that returned.
StartLoop(callbacks, event) ==
    [buffer   |-> callbacks,
     valid    |-> TRUE,
     nested   |-> {},
     previous |-> IF last.op = "dispatch" /\ last.outcome = "ok" /\ last.event = event
                  THEN [dispatched |-> TRUE, ids |-> [i \in 1..Len(log) |-> log[i].id]]
                  ELSE [dispatched |-> FALSE, ids |-> <<>>]]

\* The bug of reaching the vector with m_eventsMap[event], which inserts an
\* empty vector for an unknown key, instead of testing hasCallbacks first.
dispatch_indexing(event, params) ==
    /\ Idle
    /\ m_eventsMap' = createCallbacks(m_eventsMap, event).map
    /\ last' = Call("dispatch", event, "none", "none", params, "running", {})
    /\ iter' = [it |-> 1, endIt |-> Len(m_eventsMap'[event]) + 1]
    /\ log' = <<>>
    /\ loop' = StartLoop(m_eventsMap'[event], event)
    /\ UNCHANGED <<alive, deleted, history>>

\* void dispatch(event, params...): the test of hasCallbacks and the start of
\* the range-for, which fixes begin() and end().
dispatch(event, params) ==
    /\ Idle
    /\ IF ~hasCallbacks(m_eventsMap, event)
       THEN /\ last' = Call("dispatch", event, "none", "none", params, "ok", {})
            /\ iter' = NoIter
            /\ loop' = StartLoop(<<>>, event)
       ELSE /\ last' = Call("dispatch", event, "none", "none", params, "running", {})
            /\ iter' = [it    |-> 1,
                        endIt |-> Len(getCallbacks(m_eventsMap, event).callbacks) + 1]
            /\ loop' = StartLoop(getCallbacks(m_eventsMap, event).callbacks, event)
    /\ log' = <<>>
    /\ UNCHANGED <<alive, m_eventsMap, deleted, history>>

\* The bug of catching a subscriber's failure and going on with the loop.
dispatch_invoke_catching(raises) ==
    /\ alive
    /\ last.outcome = "running"
    /\ iter.it /= iter.endIt
    /\ LET callback == m_eventsMap[last.event][iter.it]
       IN  log' = Append(log, invoke(callback, last.event, last.params, raises,
                                     deleted[callback.id] > 0))
    /\ last' = last
    /\ iter' = [iter EXCEPT !.it = @ + 1]
    /\ UNCHANGED <<alive, m_eventsMap, deleted, loop, history>>

\* One turn of dispatch's loop: callback->invoke(event, params...). The
\* invoked function or method returns, or raises a failure that nothing in
\* dispatch catches.
dispatch_invoke(raises) ==
    /\ alive
    /\ last.outcome = "running"
    /\ loop.valid
    /\ iter.it /= iter.endIt
    /\ LET callback == m_eventsMap[last.event][iter.it]
       IN  log' = Append(log, invoke(callback, last.event, last.params, raises,
                                     deleted[callback.id] > 0))
    /\ IF raises
       THEN /\ last' = [last EXCEPT !.outcome = "failure"]
            /\ iter' = NoIter
       ELSE /\ last' = last
            /\ iter' = [iter EXCEPT !.it = @ + 1]
    /\ UNCHANGED <<alive, m_eventsMap, deleted, loop, history>>

\* The bug of one-shot subscriptions: the vector is cleared after the loop.
dispatch_return_consuming ==
    /\ alive
    /\ last.outcome = "running"
    /\ iter.it = iter.endIt
    /\ last' = [last EXCEPT !.outcome = "ok"]
    /\ iter' = NoIter
    /\ m_eventsMap' = [m_eventsMap EXCEPT ![last.event] = <<>>]
    /\ UNCHANGED <<alive, deleted, log, loop, history>>

\* The loop of dispatch ends: the iterator reached end().
dispatch_return ==
    /\ alive
    /\ last.outcome = "running"
    /\ iter.it = iter.endIt
    /\ last' = [last EXCEPT !.outcome = "ok"]
    /\ iter' = NoIter
    /\ UNCHANGED <<alive, m_eventsMap, deleted, log, loop, history>>

\* ~Broadcaster(): clearAllSubscribers(), after which the object is gone.
Destructor ==
    /\ Idle
    /\ LET cleared == clearAllSubscribers(m_eventsMap, deleted)
       IN  /\ m_eventsMap' = cleared.map
           /\ deleted' = cleared.deleted
           /\ last' = Call("~Broadcaster", "none", "none", "none", 0, "ok",
                           cleared.released)
    /\ alive' = FALSE
    /\ log' = <<>>
    /\ loop' = NoLoop
    /\ UNCHANGED <<iter, history>>

Next ==
    \/ \E event \in Events, callback \in Functions : subscribe_callback(event, callback)
    \/ \E event \in Events, object \in Objects, method \in Methods :
           subscribe_method(event, object, method)
    \/ \E event \in Events, callback \in Functions : unsubscribe_callback(event, callback)
    \/ \E event \in Events, object \in Objects, method \in Methods :
           unsubscribe_method(event, object, method)
    \/ \E event \in Events, params \in ParamValues : dispatch(event, params)
    \/ \E raises \in BOOLEAN : dispatch_invoke(raises)
    \/ dispatch_return
    \/ Destructor

Spec == Init /\ [][Next]_vars

\* The same program, with the subscribe and unsubscribe calls made for each
\* (event, function) recorded in history.
InitRecording ==
    /\ alive = TRUE
    /\ m_eventsMap = EmptyMap
    /\ deleted = <<>>
    /\ last = Call("Broadcaster", "none", "none", "none", 0, "ok", {})
    /\ iter = NoIter
    /\ log = <<>>
    /\ loop = NoLoop
    /\ history = [NoHistory EXCEPT !.recording = TRUE]

SpecRecording == InitRecording /\ [][Next]_vars

\* ------------------------------------------------------------------------
\* Re-entrant use: a callback that calls subscribe or unsubscribe on the
\* dispatcher that is invoking it
\* ------------------------------------------------------------------------

\* Upper bound on the number of calls made from inside callbacks during one
\* dispatch.
MaxNested == 1

\* A callback invoked by the running dispatch is executing (its invocation is
\* the last entry of the log) and may call back into the dispatcher.
InCallback ==
    /\ alive
    /\ last.op = "dispatch"
    /\ last.outcome = "running"
    /\ Len(log) >= 1
    /\ Cardinality(loop.nested) < MaxNested

\* The change of keeping all the vectors in one contiguous container, where
\* a change to any of them moves the others.
Invalidates_anyEvent(callEvent, loopEvent, modified) == modified

\* Whether a call on callEvent invalidates the iterators of the range-for of
\* dispatch(loopEvent). push_back and erase on the vector being traversed
\* invalidate its end() iterator, which the range-for has cached (and erase
\* the iterators from the erased position on, push_back all of them when it
\* reallocates). The vectors of other events are separate objects, and
\* std::unordered_map never moves its elements.
Invalidates(callEvent, loopEvent, modified) == callEvent = loopEvent /\ modified

\* What the loop state keeps of a call made from inside a callback: the
\* operation, its event, how it ended, and whether it changed the event's
\* vector (push_back always does, clearSubscriber when it found a record).
NestedCall(call, modified) ==
    [op |-> call.op, event |-> call.event, outcome |-> call.outcome,
     modified |-> modified]

\* The loop state after a call made from inside a callback.
AfterNested(call, modified) ==
    [loop EXCEPT !.nested = @ \cup {NestedCall(call, modified)},
                 !.valid  = @ /\ ~Invalidates(call.event, last.event, modified)]

\* subscribe(event, callback) called from inside a callback.
nested_subscribe_callback(event, callback) ==
    /\ InCallback
    /\ Len(deleted) < MaxAllocs
    /\ LET created   == createCallbacks(m_eventsMap, event)
           callbacks == getCallbacks(created.map, event).callbacks
           cleared   == IF ~created.isCreated
                        THEN clearSubscriber(callbacks, deleted,
                                             find_callback(callbacks, callback))
                        ELSE [callbacks |-> callbacks, deleted |-> deleted,
                              released |-> {}]
           id        == Len(deleted) + 1
       IN  /\ m_eventsMap' = [created.map EXCEPT ![event] =
                                 push_back(cleared.callbacks, StaticCallback(id, callback))]
           /\ deleted' = Append(cleared.deleted, 0)
           /\ loop' = AfterNested(Call("subscribe", event, callback, "none", 0, "ok",
                                       cleared.released), TRUE)
    /\ history' = Subscribed(event, callback)
    /\ UNCHANGED <<alive, last, iter, log>>

\* subscribe(event, object, method) called from inside a callback.
nested_subscribe_method(event, object, method) ==
    /\ InCallback
    /\ ClassOf(object) = MethodClass(method)
    /\ Len(deleted) < MaxAllocs
    /\ LET created   == createCallbacks(m_eventsMap, event)
           callbacks == getCallbacks(created.map, event).callbacks
           cleared   == IF ~created.isCreated
                        THEN clearSubscriber(callbacks, deleted,
                                             find_method(callbacks, method))
                        ELSE [callbacks |-> callbacks, deleted |-> deleted,
                              released |-> {}]
           id        == Len(deleted) + 1
       IN  /\ m_eventsMap' = [created.map EXCEPT ![event] =
                                 push_back(cleared.callbacks,
                                           MemberCallback(id, object, method))]
           /\ deleted' = Append(cleared.deleted, 0)
           /\ loop' = AfterNested(Call("subscribe", event, method, object, 0, "ok",
                                       cleared.released), TRUE)
    /\ UNCHANGED <<alive, last, iter, log, history>>

\* The std::out_of_range thrown by a nested unsubscribe leaves the callback
\* that made the call, and so the dispatch that invoked it.
NestedThrow(call) ==
    /\ last' = [last EXCEPT !.outcome = "failure"]
    /\ iter' = NoIter
    /\ log' = [log EXCEPT ![Len(log)].raised = TRUE]
    /\ loop' = AfterNested(call, FALSE)

\* unsubscribe(event, callback) called from inside a callback.
nested_unsubscribe_callback(event, callback) ==
    /\ InCallback
    /\ LET got == getCallbacks(m_eventsMap, event)
       IN  IF got.thrown /= "none"
           THEN /\ NestedThrow(Call("unsubscribe", event, callback, "none", 0,
                                    got.thrown, {}))
                /\ UNCHANGED <<m_eventsMap, deleted, history>>
           ELSE LET cleared == clearSubscriber(got.callbacks, deleted,
                                               find_callback(got.callbacks, callback))
                IN  /\ m_eventsMap' = [m_eventsMap EXCEPT ![event] = cleared.callbacks]
                    /\ deleted' = cleared.deleted
                    /\ loop' = AfterNested(Call("unsubscribe", event, callback, "none",
                                                0, "ok", cleared.released),
                                           cleared.released /= {})
                    /\ history' = Unsubscribed(event, callback)
                    /\ UNCHANGED <<last, iter, log>>
    /\ UNCHANGED alive

\* unsubscribe(event, object, method) called from inside a callback.
nested_unsubscribe_method(event, object, method) ==
    /\ InCallback
    /\ ClassOf(object) = MethodClass(method)
    /\ LET got == getCallbacks(m_eventsMap, event)
       IN  IF got.thrown /= "none"
           THEN /\ NestedThrow(Call("unsubscribe", event, method, object, 0,
                                    got.thrown, {}))
                /\ UNCHANGED <<m_eventsMap, deleted>>
           ELSE LET cleared == clearSubscriber(got.callbacks, deleted,
                                               find_method(got.callbacks, method))
                IN  /\ m_eventsMap' = [m_eventsMap EXCEPT ![event] = cleared.callbacks]
                    /\ deleted' = cleared.deleted
                    /\ loop' = AfterNested(Call("unsubscribe", event, method, object,
                                                0, "ok", cleared.released),
                                           cleared.released /= {})
                    /\ UNCHANGED <<last, iter, log>>
    /\ UNCHANGED <<alive, history>>

\* The records a slot of the traversed range can hold once the iterators are
\* invalid: those of the vector as it was at begin(), and those of the vector
\* as it is now.
Reachable ==
    {loop.buffer[i] : i \in DOMAIN loop.buffer}
        \cup {m_eventsMap[last.event][i] : i \in DOMAIN m_eventsMap[last.event]}

\* One turn of dispatch's loop with invalid iterators: undefined behaviour.
\* The range [it, end) is still the one fixed at the start of the loop; the
\* slot read may hold any record of Reachable, deleted or not, or a value on
\* which the call crashes.
dispatch_undefined(raises, crashes) ==
    /\ alive
    /\ last.outcome = "running"
    /\ ~loop.valid
    /\ iter.it /= iter.endIt
    /\ IF crashes
       THEN /\ last' = [last EXCEPT !.outcome = "crash"]
            /\ iter' = NoIter
            /\ log' = log
       ELSE /\ \E callback \in Reachable :
                   log' = Append(log, invoke(callback, last.event, last.params,
                                             raises, deleted[callback.id] > 0))
            /\ IF raises
               THEN /\ last' = [last EXCEPT !.outcome = "failure"]
                    /\ iter' = NoIter
               ELSE /\ last' = last
                    /\ iter' = [iter EXCEPT !.it = @ + 1]
    /\ UNCHANGED <<alive, m_eventsMap, deleted, loop, history>>

NextReentrant ==
    \/ Next
    \/ \E event \in Events, callback \in Functions :
           nested_subscribe_callback(event, callback)
    \/ \E event \in Events, object \in Objects, method \in Methods :
           nested_subscribe_method(event, object, method)
    \/ \E event \in Events, callback \in Functions :
           nested_unsubscribe_callback(event, callback)
    \/ \E event \in Events, object \in Objects, method \in Methods :
           nested_unsubscribe_method(event, object, method)
    \/ \E raises \in BOOLEAN, crashes \in BOOLEAN : dispatch_undefined(raises, crashes)

SpecReentrant == Init /\ [][NextReentrant]_vars

\* ------------------------------------------------------------------------
\* Vocabulary of the properties
\* ------------------------------------------------------------------------

\* The function or method a record is bound to, read from its own fields.
TargetOf(record) ==
    IF record.class[1] = "StaticCallback" THEN record.m_func ELSE record.m_method

\* The object a record calls its target on ("none" for a function binding).
ObjectOf(record) ==
    IF record.class[1] = "StaticCallback" THEN "none" ELSE record.m_object

\* "function" or "method".
VariantOf(record) ==
    IF record.class[1] = "StaticCallback" THEN "function" ELSE "method"

\* The last call was a dispatch that returned normally.
DispatchReturned == last.op = "dispatch" /\ last.outcome = "ok"

\* Number of invocations of target in the log.
Invocations(target) == Cardinality({i \in DOMAIN log : log[i].callee = target})

\* ------------------------------------------------------------------------
\* C1
\* ------------------------------------------------------------------------

\* C1: a dispatch of an event that has an entry, once it has returned, has
\* invoked every record of that event's list exactly once, in list order,
\* which is the order of appending (record ids are allocation numbers, and a
\* record is appended by the subscribe that allocates it), each with the
\* dispatched event key and the dispatched params.
C1_DispatchInvokesAllInInsertionOrder ==
    (DispatchReturned /\ hasCallbacks(m_eventsMap, last.event)) =>
        LET callbacks == m_eventsMap[last.event]
        IN  /\ Len(log) = Len(callbacks)
            /\ \A i \in DOMAIN log :
                  /\ log[i].id = callbacks[i].id
                  /\ log[i].callee = TargetOf(callbacks[i])
                  /\ log[i].object = ObjectOf(callbacks[i])
                  /\ log[i].event = last.event
                  /\ log[i].params = last.params
            /\ \A i, j \in DOMAIN log : i < j => log[i].id < log[j].id

\* C1 witness: fA then fB were subscribed to e1, and a dispatch of e1 with 5
\* has returned after calling fA, then fB.
C1_Witness ==
    /\ DispatchReturned
    /\ last.event = "e1"
    /\ last.params = 5
    /\ Len(log) = 2
    /\ log[1].callee = "fA" /\ log[1].id = 1
    /\ log[2].callee = "fB" /\ log[2].id = 2

\* ------------------------------------------------------------------------
\* C2
\* ------------------------------------------------------------------------

\* Two records are the same binding for dedup: same variant, same identity.
SameIdentity(r1, r2) ==
    VariantOf(r1) = VariantOf(r2) /\ TargetOf(r1) = TargetOf(r2)

\* C2: in every reachable state, no event's list holds two records with the
\* same (variant, identity) pair.
C2_AtMostOneRecordPerIdentity ==
    \A event \in DOMAIN m_eventsMap :
        \A i, j \in DOMAIN m_eventsMap[event] :
            i /= j => ~SameIdentity(m_eventsMap[event][i], m_eventsMap[event][j])

\* ------------------------------------------------------------------------
\* C3
\* ------------------------------------------------------------------------

\* C3: a dispatch that has returned has invoked no function more than once,
\* however many times that function was subscribed to the event.
C3_OneInvocationPerFunction ==
    DispatchReturned => \A callback \in Functions : Invocations(callback) <= 1

\* ------------------------------------------------------------------------
\* C4
\* ------------------------------------------------------------------------

\* C4: a dispatch of event e invokes no function f for which unsubscribe(e, f)
\* was called after subscribe(e, f) with no subscribe(e, f) since; and a
\* dispatch of an event whose list is empty invokes nothing and does not fail.
C4_UnsubscribedFunctionNotInvoked ==
    /\ last.op = "dispatch" =>
          \A i \in DOMAIN log :
              log[i].callee \in Functions =>
                  history.calls[last.event][log[i].callee] /= "unsubscribed"
    /\ (last.op = "dispatch" /\ hasCallbacks(m_eventsMap, last.event)
           /\ m_eventsMap[last.event] = <<>>) =>
          (log = <<>> /\ last.outcome /= "failure")

\* ------------------------------------------------------------------------
\* C5
\* ------------------------------------------------------------------------

\* C5: unsubscribe (either overload) of an event that has no entry raises no
\* failure, creates no entry for it and releases nothing.
C5_UnsubscribeUnknownEventIsNoOp ==
    (last.op = "unsubscribe" /\ ~hasCallbacks(m_eventsMap, last.event)) =>
        (last.outcome = "ok" /\ last.released = {})

\* ------------------------------------------------------------------------
\* C6
\* ------------------------------------------------------------------------

\* Positions of event's list that hold a method binding for method.
MethodBindings(event, method) ==
    {i \in DOMAIN m_eventsMap[event] :
        /\ VariantOf(m_eventsMap[event][i]) = "method"
        /\ TargetOf(m_eventsMap[event][i]) = method}

\* C6: after subscribe(event, object, method) the event's list holds exactly
\* one binding for that method, bound to the object of this call, whatever
\* object an earlier binding of the method was bound to (that binding is the
\* only thing the call released); and a dispatch that has returned has invoked
\* each method at most once, on the object of the binding in the list.
C6_SecondObjectReplacesFirst ==
    /\ (last.op = "subscribe" /\ last.object /= "none") =>
          /\ Cardinality(MethodBindings(last.event, last.target)) = 1
          /\ \A i \in MethodBindings(last.event, last.target) :
                 m_eventsMap[last.event][i].m_object = last.object
          /\ Cardinality(last.released) <= 1
          /\ \A r \in last.released :
                 VariantOf(r) = "method" /\ TargetOf(r) = last.target
    /\ (DispatchReturned /\ hasCallbacks(m_eventsMap, last.event)) =>
          \A method \in Methods :
              /\ Invocations(method) <= 1
              /\ \A i \in DOMAIN log :
                     log[i].callee = method =>
                         \E j \in MethodBindings(last.event, method) :
                             m_eventsMap[last.event][j].m_object = log[i].object

\* C6 witness: a method subscribe has just replaced a binding of the same
\* method that was bound to a different object.
C6_Witness ==
    /\ last.op = "subscribe"
    /\ last.object /= "none"
    /\ \E r \in last.released :
           VariantOf(r) = "method" /\ r.m_object /= last.object

\* ------------------------------------------------------------------------
\* C7
\* ------------------------------------------------------------------------

\* A step that is a call of dispatch (made while no call is in progress).
DispatchCallStep == last.outcome /= "running" /\ last'.op = "dispatch"

\* C7: a call of dispatch on an event without an entry returns at once
\* without failure, invokes nothing, and leaves the table, and so the set of
\* known event keys, as it was.
C7_DispatchUnknownEventIsNoOp ==
    [][(DispatchCallStep /\ ~hasCallbacks(m_eventsMap, last'.event)) =>
          /\ last'.outcome = "ok"
          /\ log' = <<>>
          /\ m_eventsMap' = m_eventsMap
          /\ DOMAIN m_eventsMap' = DOMAIN m_eventsMap
          /\ deleted' = deleted]_vars

\* C7 witness: e2 was dispatched while only e1 has an entry, with a binding.
C7_Witness ==
    /\ last.op = "dispatch"
    /\ last.event = "e2"
    /\ DOMAIN m_eventsMap = {"e1"}
    /\ m_eventsMap["e1"] /= <<>>
    /\ last.outcome = "ok"

\* ------------------------------------------------------------------------
\* C8
\* ------------------------------------------------------------------------

\* What holds of the log when a binding has raised a failure: the binding
\* that raised is the last one invoked, the dispatch has ended with that
\* failure, and the log is the first k records of the list, in order, once each.
FailFast ==
    /\ \A i \in DOMAIN log :
          log[i].raised =>
              /\ i = Len(log)
              /\ last.op = "dispatch"
              /\ last.outcome = "failure"
              /\ iter = NoIter
    /\ (last.op = "dispatch" /\ last.outcome = "failure") =>
          LET callbacks == m_eventsMap[last.event]
          IN  /\ Len(log) >= 1
              /\ Len(log) <= Len(callbacks)
              /\ log[Len(log)].raised
              /\ \A i \in DOMAIN log : log[i].id = callbacks[i].id
    /\ (last.op = "dispatch" /\ last.outcome = "running") =>
          /\ Len(log) = iter.it - 1
          /\ \A i \in DOMAIN log : log[i].id = m_eventsMap[last.event][i].id

\* C8: when the k-th binding raises during dispatch, the dispatch ends with
\* that failure, bindings 1..k have been invoked once each and none after k,
\* and no step of a dispatch changes the table or releases a record, so a
\* later dispatch walks the same list from its first binding.
C8_FailureAbortsDispatch ==
    /\ []FailFast
    /\ [][last'.op = "dispatch" =>
             (m_eventsMap' = m_eventsMap /\ deleted' = deleted)]_vars
    /\ [][(DispatchCallStep /\ last'.outcome = "running") =>
             (iter'.it = 1 /\ log' = <<>>)]_vars

\* C8 witness: the first of two bindings raised; the second was not invoked.
C8_Witness ==
    /\ last.op = "dispatch"
    /\ last.outcome = "failure"
    /\ Len(log) = 1
    /\ Len(m_eventsMap[last.event]) = 2

\* ------------------------------------------------------------------------
\* C9
\* ------------------------------------------------------------------------

\* Record id is held by some event's list.
Held(id) ==
    \E event \in DOMAIN m_eventsMap :
        \E i \in DOMAIN m_eventsMap[event] : m_eventsMap[event][i].id = id

\* C9: no record is deleted twice; a record is in a list exactly as long as
\* it has not been deleted (and in one position only); after the destructor
\* every record created has been deleted exactly once; and dispatch invokes
\* no record that has been deleted.
C9_ReleasedExactlyOnce ==
    /\ \A id \in DOMAIN deleted :
          /\ deleted[id] <= 1
          /\ deleted[id] = 0 <=> Held(id)
          /\ Held(id) => Cardinality({p \in UNION {{event} \X (DOMAIN m_eventsMap[event]) :
                                                      event \in DOMAIN m_eventsMap} :
                                         m_eventsMap[p[1]][p[2]].id = id}) = 1
    /\ ~alive => \A id \in DOMAIN deleted : deleted[id] = 1
    /\ \A i \in DOMAIN log : ~log[i].dangling

\* C9 witness: the Broadcaster is destroyed; the destructor released some
\* records, and another one had been released before by a removal.
C9_Witness ==
    /\ ~alive
    /\ last.released /= {}
    /\ \E id \in DOMAIN deleted : \A r \in last.released : r.id /= id

\* ------------------------------------------------------------------------
\* C10
\* ------------------------------------------------------------------------

\* C10: the destructor's clearAllSubscribers deletes every record held by
\* every event's list and leaves a table without keys; clearAllSubscribers
\* run again on that state deletes nothing and leaves the same empty table.
C10_TeardownClearsAndIsIdempotent ==
    [][last'.op = "~Broadcaster" =>
          /\ \A event \in DOMAIN m_eventsMap :
                 \A i \in DOMAIN m_eventsMap[event] :
                     /\ deleted'[m_eventsMap[event][i].id]
                            = deleted[m_eventsMap[event][i].id] + 1
                     /\ m_eventsMap[event][i] \in last'.released
          /\ DOMAIN m_eventsMap' = {}
          /\ LET again == clearAllSubscribers(m_eventsMap', deleted')
             IN  /\ again.map = m_eventsMap'
                 /\ DOMAIN again.map = {}
                 /\ again.deleted = deleted'
                 /\ again.released = {}]_vars

\* C10 witness: the destructor ran and released at least two records.
C10_Witness ==
    /\ last.op = "~Broadcaster"
    /\ ~alive
    /\ Cardinality(last.released) >= 2
    /\ \A id \in DOMAIN deleted : deleted[id] = 1

\* ------------------------------------------------------------------------
\* C11
\* ------------------------------------------------------------------------

\* A step that is a call of op made while no call is in progress.
CallStep(op) == last.outcome /= "running" /\ last'.op = op

\* "function" or "method": the overload a call used.
VariantOfCall(call) == IF call.object = "none" THEN "function" ELSE "method"

\* The list of event before the step ("<<>>" when event has no entry yet).
ListBefore(event) ==
    IF event \in DOMAIN m_eventsMap THEN m_eventsMap[event] ELSE <<>>

\* Positions of list whose record has the variant and identity of call.
Matches(list, call) ==
    {i \in DOMAIN list : /\ VariantOf(list[i]) = VariantOfCall(call)
                         /\ TargetOf(list[i]) = call.target}

\* C11: a subscribe of an identity that is already in the event's list leaves
\* the length of the list unchanged, a subscribe of an identity that is not
\* in it adds one to the length, and in both cases the subscribed binding is
\* the last element afterwards.
C11_ResubscribeIsReplaceThenAppend ==
    [][CallStep("subscribe") =>
          LET before == ListBefore(last'.event)
              after  == m_eventsMap'[last'.event]
          IN  /\ Len(after) >= 1
              /\ Matches(after, last') = {Len(after)}
              /\ Matches(before, last') /= {} => Len(after) = Len(before)
              /\ Matches(before, last') = {} => Len(after) = Len(before) + 1]_vars

\* ------------------------------------------------------------------------
\* C12
\* ------------------------------------------------------------------------

\* The sequence list without its element at position i.
Without(list, i) == SubSeq(list, 1, i - 1) \o SubSeq(list, i + 1, Len(list))

\* C12: an unsubscribe of an event that has an entry removes the first record
\* of the list whose variant and identity match the call, and that one only,
\* the rest keeping its order; without a match the list is left as it was.
C12_UnsubscribeRemovesFirstMatchOnly ==
    [][(CallStep("unsubscribe") /\ hasCallbacks(m_eventsMap, last'.event)) =>
          LET before == m_eventsMap[last'.event]
              hits   == Matches(before, last')
          IN  IF hits = {}
              THEN m_eventsMap'[last'.event] = before
              ELSE m_eventsMap'[last'.event] =
                       Without(before, CHOOSE i \in hits : \A j \in hits : i <= j)]_vars

\* ------------------------------------------------------------------------
\* C13
\* ------------------------------------------------------------------------

\* C13: until the destructor runs no step removes an event key; a key appears
\* only in a call of subscribe for that event; a subscribe to a known event
\* adds no key; and after an unsubscribe that returned, the event still has
\* its entry, with an empty list if its last binding was removed.
C13_KnownKeysAreMonotonic ==
    /\ [][last'.op /= "~Broadcaster" =>
             /\ DOMAIN m_eventsMap \subseteq DOMAIN m_eventsMap'
             /\ \A event \in DOMAIN m_eventsMap' \ DOMAIN m_eventsMap :
                    CallStep("subscribe") /\ last'.event = event]_vars
    /\ [][(CallStep("subscribe") /\ hasCallbacks(m_eventsMap, last'.event)) =>
             DOMAIN m_eventsMap' = DOMAIN m_eventsMap]_vars
    /\ []((last.op = "unsubscribe" /\ last.outcome = "ok") =>
             hasCallbacks(m_eventsMap, last.event))

\* C13 witness: an unsubscribe has removed the last binding of its event, and
\* the event keeps an entry with an empty list.
C13_Witness ==
    /\ last.op = "unsubscribe"
    /\ last.released /= {}
    /\ hasCallbacks(m_eventsMap, last.event)
    /\ m_eventsMap[last.event] = <<>>

\* ------------------------------------------------------------------------
\* C14
\* ------------------------------------------------------------------------

\* C14: a call unsubscribe(event, object, method) on an event that has an
\* entry removes the binding of that method whatever object that binding was
\* registered with: every binding of the method that was in the list is
\* released by the call, and none is left in the list.
C14_UnsubscribeMethodIgnoresObject ==
    [][(CallStep("unsubscribe") /\ last'.object /= "none"
           /\ hasCallbacks(m_eventsMap, last'.event)) =>
          /\ \A i \in Matches(m_eventsMap[last'.event], last') :
                 m_eventsMap[last'.event][i] \in last'.released
          /\ Matches(m_eventsMap'[last'.event], last') = {}
          /\ \A r \in last'.released : deleted'[r.id] = deleted[r.id] + 1]_vars

\* C14 witness: an unsubscribe naming one object has removed a binding of the
\* method that was registered with another object.
C14_Witness ==
    /\ last.op = "unsubscribe"
    /\ last.object /= "none"
    /\ \E r \in last.released : r.m_method = last.target /\ r.m_object /= last.object

\* ------------------------------------------------------------------------
\* C15
\* ------------------------------------------------------------------------

\* The records of list that are not of variant, in list order.
OtherVariant(list, variant) == SelectSeq(list, LAMBDA r : VariantOf(r) /= variant)

\* C15: a call of subscribe or unsubscribe releases only records of its own
\* variant, and the records of the other variant are the same, in the same
\* order, in the event's list before and after the call.
C15_CrossVariantNeverMatches ==
    [][(CallStep("subscribe") \/ CallStep("unsubscribe")) =>
          /\ \A r \in last'.released : VariantOf(r) = VariantOfCall(last')
          /\ hasCallbacks(m_eventsMap', last'.event) =>
                 OtherVariant(m_eventsMap'[last'.event], VariantOfCall(last'))
                     = OtherVariant(ListBefore(last'.event), VariantOfCall(last'))]_vars

\* C15 witness: an unsubscribe of a method has removed a method binding from
\* a list that holds a function binding, which is still there.
C15_Witness ==
    /\ last.op = "unsubscribe"
    /\ last.object /= "none"
    /\ last.released /= {}
    /\ \E i \in DOMAIN m_eventsMap[last.event] :
           VariantOf(m_eventsMap[last.event][i]) = "function"

\* ------------------------------------------------------------------------
\* C16
\* ------------------------------------------------------------------------

\* The subscribe algorithm without the isCreated test: create the entry if
\* needed, always run find and clearSubscriber, then append the new record.
SubscribeAlwaysDedup(map, del, call) ==
    LET withEntry == createCallbacks(map, call.event).map
        callbacks == withEntry[call.event]
        id        == Len(del) + 1
        cleared   == clearSubscriber(callbacks, del,
                         IF call.object = "none"
                         THEN find_callback(callbacks, call.target)
                         ELSE find_method(callbacks, call.target))
        record    == IF call.object = "none"
                     THEN StaticCallback(id, call.target)
                     ELSE MemberCallback(id, call.object, call.target)
    IN  [map      |-> [withEntry EXCEPT ![call.event] =
                          push_back(cleared.callbacks, record)],
         deleted  |-> Append(cleared.deleted, 0),
         released |-> cleared.released]

\* C16: every call of subscribe leaves the table, and the set of deleted
\* records, that the algorithm without the isCreated test would leave.
C16_SkippingDedupOnNewEventIsHarmless ==
    [][CallStep("subscribe") =>
          LET always == SubscribeAlwaysDedup(m_eventsMap, deleted, last')
          IN  /\ m_eventsMap' = always.map
              /\ deleted' = always.deleted
              /\ last'.released = always.released]_vars

\* C16 witness: the first subscribe ever made, to an event that had no entry:
\* the call that skipped find and clearSubscriber.
C16_Witness ==
    /\ last.op = "subscribe"
    /\ last.object /= "none"
    /\ Len(deleted) = 1
    /\ DOMAIN m_eventsMap = {last.event}
    /\ Len(m_eventsMap[last.event]) = 1

\* ------------------------------------------------------------------------
\* C17
\* ------------------------------------------------------------------------

\* The ids of the records of a sequence of records.
Ids(list) == {list[i].id : i \in DOMAIN list}

\* Number of invocations of record id in the log.
InvocationsOf(id) == Cardinality({i \in DOMAIN log : log[i].id = id})

\* The records that stay in the dispatched event's list for the whole
\* dispatch: in the vector when the loop started and still in it now (a
\* removed record never comes back, ids being allocation numbers).
Staying == Ids(loop.buffer) \cap Ids(ListBefore(last.event))

\* C17 (as stated): whatever subscribe and unsubscribe calls the callbacks
\* make during a dispatch, the dispatch invokes no deleted record, does not
\* crash, and once it has returned it has invoked every record that stayed in
\* the list for the whole dispatch exactly once.
C17_ReentrantDispatchIsHardened ==
    last.op = "dispatch" =>
        /\ \A i \in DOMAIN log : ~log[i].dangling
        /\ last.outcome /= "crash"
        /\ last.outcome = "ok" => \A id \in Staying : InvocationsOf(id) = 1

\* Every call made from inside a callback left the dispatched event's vector
\* alone: it addressed another event, or it changed nothing.
NestedCallsOffTheList ==
    \A call \in loop.nested : call.event /= last.event \/ ~call.modified

\* C17 (amended): when the subscribe and unsubscribe calls that callbacks
\* make during dispatch(e) do not change e's vector (they address another
\* event, or are an unsubscribe that finds no record), the dispatch invokes
\* no deleted record, does not crash, and once it has returned it has invoked
\* every record of the list exactly once, in list order.
C17_NestedCallsOffTheListAreSafe ==
    (last.op = "dispatch" /\ NestedCallsOffTheList) =>
        /\ \A i \in DOMAIN log : ~log[i].dangling
        /\ last.outcome /= "crash"
        /\ (last.outcome = "ok" /\ hasCallbacks(m_eventsMap, last.event)) =>
              /\ \A id \in Staying : InvocationsOf(id) = 1
              /\ Len(log) = Len(m_eventsMap[last.event])
              /\ \A i \in DOMAIN log : log[i].id = m_eventsMap[last.event][i].id

\* C17 witness: a dispatch of two bindings has returned, during which a
\* callback changed the vector of another event.
C17_Witness ==
    /\ DispatchReturned
    /\ Len(log) = 2
    /\ \E call \in loop.nested : call.event /= last.event /\ call.modified

\* ------------------------------------------------------------------------
\* C18
\* ------------------------------------------------------------------------

\* C18: a call of subscribe or unsubscribe for an event leaves the entry of
\* every other event as it was, with the same records in the same order; and
\* every record a dispatch invokes is in the list of the dispatched event and
\* in the list of no other event.
C18_EventsAreIsolated ==
    /\ [][(CallStep("subscribe") \/ CallStep("unsubscribe")) =>
             \A event \in DOMAIN m_eventsMap \ {last'.event} :
                 /\ event \in DOMAIN m_eventsMap'
                 /\ m_eventsMap'[event] = m_eventsMap[event]]_vars
    /\ [](last.op = "dispatch" =>
             \A i \in DOMAIN log :
                 /\ log[i].id \in Ids(m_eventsMap[last.event])
                 /\ \A event \in DOMAIN m_eventsMap \ {last.event} :
                        log[i].id \notin Ids(m_eventsMap[event]))

\* C18 witness: a dispatch of one event has returned after invoking its one
\* binding, while another event holds two bindings.
C18_Witness ==
    /\ DispatchReturned
    /\ Len(log) = 1
    /\ \E event \in DOMAIN m_eventsMap \ {last.event} : Len(m_eventsMap[event]) = 2

\* ------------------------------------------------------------------------
\* C19
\* ------------------------------------------------------------------------

\* C19: with callbacks that do not call back into the dispatcher, no step of
\* a dispatch (of an event with bindings, with an empty list, or without an
\* entry) changes the event keys or any event's list; and a dispatch that
\* returns right after a returned dispatch of the same event has invoked the
\* same records in the same order.
C19_DispatchLeavesTableUnchanged ==
    /\ [][last'.op = "dispatch" =>
             /\ DOMAIN m_eventsMap' = DOMAIN m_eventsMap
             /\ \A event \in DOMAIN m_eventsMap :
                    m_eventsMap'[event] = m_eventsMap[event]]_vars
    /\ []((DispatchReturned /\ loop.previous.dispatched) =>
             [i \in 1..Len(log) |-> log[i].id] = loop.previous.ids)

\* C19 witness: two consecutive dispatches of an event with two bindings
\* have returned.
C19_Witness ==
    /\ DispatchReturned
    /\ loop.previous.dispatched
    /\ Len(log) = 2
    /\ Len(loop.previous.ids) = 2

====
